---- MODULE Spec2Model ----
(***************************************************************************)
(* State-machine model of share/eds/store.go (celestia-node): the EDS      *)
(* Store facade over the DAGStore shard Lifecycle Manager, the accessor    *)
(* cache with striped locks, the CAR index and the blocks directory.       *)
(*                                                                         *)
(* The Store methods (put, getCachedAccessor/getAccessor, remove, has,     *)
(* list, trackLateResult) are translated from src/share/eds/store.go.      *)
(* The Lifecycle Manager (dagstore), the accessor cache (blockstoreCache)  *)
(* and the index repository are not part of the sources at hand; they are  *)
(* modelled from sections 4.1-4.3 and 5 of the specification and marked so *)
(* where they are defined.                                                 *)
(***************************************************************************)
EXTENDS Naturals, Integers, Sequences, FiniteSets, TLC

\* ------------------------------------------------------------------ bounds
NumProcs == 2        \* concurrent callers (goroutines) of the Store
NumRoots == 2        \* distinct DataRoots (shard keys) that are read
NumStored == 1       \* of these, the roots that Put and Remove are called on
NumStripes == 2      \* stripe locks of the accessor cache (hash(key) mod N)
MaxRefs == 2         \* cap on a shard's reference count (live accessors)
NumShareValues == 4  \* distinct values of a share
NumFetchers == 4     \* concurrent callers of Fetch on one mount
NumSuites == 2       \* test suites, each with its own validators
NumRandom == 16      \* distinct values that tmrand.Bytes may return
MaxFetches == 4      \* cap on the fetches of one mount

\* program constant: capacity of the accessor cache (store.go:108)
defaultCacheSize == 128

\* program constant: GC is turned off by default (store.go:40)
defaultGCInterval == 0

MaxGCCalls == 8      \* cap on the GC runs of one loop
GCIntervals == {defaultGCInterval, 1}
GCResults == {"reclaimed none", "reclaimed some"}  \* what a GC run reports

Procs == 1..NumProcs
Roots == 1..NumRoots
Stored == 1..NumStored
Stripes == 0..(NumStripes - 1)
Fetchers == 1..NumFetchers
Shares == 0..(NumShareValues - 1)

VARIABLES
  shards,    \* Lifecycle Manager registry: key -> [state, refs]
  carIdx,    \* index repository: key -> a full index is stored
  files,     \* blocks directory: key -> "none" | "empty" | "data"
  cache,     \* accessor cache: key -> an accessor is cached
  locks,     \* stripe -> holder (0 = free)
  pc,        \* caller -> position in its current Store call
  op,        \* caller -> its current (or last) call: put, get, remove
  root,      \* caller -> root of its current (or last) call
  res,       \* caller -> error returned by its last call (NoResult before)
  req,       \* caller -> result channel of the request it waits on
  late,      \* result channel held by the detached tracker
  stale,     \* caller -> its open file was unlinked (it writes to no path)
  rmLog,     \* caller -> stages its current/last remove has executed
  found,     \* caller -> the bool returned by its last Has
  stored,    \* history: key -> a Put of it returned nil and no Remove since
  cancel,        \* s.cancel / runCtx: "nil" | "set" | "called"
  gcInterval,    \* s.gcInterval
  lastGCResult,  \* s.lastGCResult: "nil" | "empty" | a GC result
  gcLoop,        \* the gc goroutine: "none" | "select" | "returned"
  dgstr,         \* Lifecycle Manager: [started, closed, gcCalls]
  invertedIdx,   \* inverted index: "open" | "closed" | "close failed"
  stopRet,       \* what Stop returned (NoResult before)
  buf,           \* inMemoryOnceMount.buf: "nil" | "data"
  readOnce,      \* inMemoryOnceMount.readOnce
  fpc,           \* caller -> position in its Fetch call
  fetched,       \* caller -> reader its last Fetch returned
  bufReads,      \* history: Fetches that returned a reader over the buffer
  square,        \* the square S that is put under root(S)
  carFile,       \* the CAR file of S in the blocks directory
  edsRet,        \* what Get(root(S)) returned
  dahRet,        \* what GetDAH(root(S)) returned
  tcase,         \* TestVerify: index of the running test case (0 = none)
  untrusted,     \* TestVerify: the header test.prepare() returned
  verifyErr,     \* TestVerify: what trusted.Verify(untrusted) returned
  putPos,        \* one put call, step by step: its position
  mountBuf,      \* its mount's buffer: [isNil, bytes]
  mountReadOnce, \* its mount's readOnce flag
  fileBytes,     \* the chunks in the file it opened
  registered,    \* RegisterShard was called with its mount
  putErr,        \* the error it returned (NoResult before)
  lmFetched      \* Lifecycle Manager: [n, bytes] of its fetches of the mount

\* Store lifecycle: Start, Stop and the gc loop
lifeVars == <<cancel, gcInterval, lastGCResult, gcLoop, dgstr, invertedIdx,
              stopRet>>

\* one inMemoryOnceMount and its Fetch calls
mountVars == <<buf, readOnce, fpc, fetched, bufReads>>

\* one square, its CAR file and what is read back from it
carVars == <<square, carFile, edsRet, dahRet>>

\* TestVerify: one test case at a time
verVars == <<tcase, untrusted, verifyErr>>

\* one put call in its steps, and the fetches of its mount
orderVars == <<putPos, mountBuf, mountReadOnce, fileBytes, registered,
               putErr, lmFetched>>

\* what put, getCachedAccessor, remove and the Lifecycle Manager leave alone
aux == <<found, orderVars, verVars, lifeVars, mountVars, carVars>>

\* what the calls on stored squares work on
storeVars == <<shards, carIdx, files, cache, locks, pc, op, root, res, req,
               late, stale, rmLog, stored>>

vars == <<storeVars, aux>>

\* ------------------------------------------------------------------ errors
\* An error is the chain of its wrapped causes, outermost first; nil is <<>>.
Nil == <<>>
NoResult == <<"(no result yet)">>
Wrap(msg, err) == <<msg>> \o err
errorsIs(err, target) == \E i \in 1..Len(err) : err[i] = target

ErrShardExists == <<"ErrShardExists">>
ErrShardUnknown == <<"ErrShardUnknown">>
ErrNotFound == <<"ErrNotFound">>
ctxErr == <<"context.Canceled">>

\* ------------------------------------------------------------------ channels
NoReq == [op |-> "none", key |-> 0, st |-> "none"]
NoLate == [op |-> "none", key |-> 0, st |-> "none", tracker |-> "none",
           maxWait |-> 0]
NewChan(o, k) == [op |-> o, key |-> k, st |-> "pending"]
\* st: "pending" (no result sent yet), "ok" (result.Error == nil) or the
\* name of result.Error
resultError(st) == IF st = "ok" THEN Nil ELSE <<st>>

NoShard == [state |-> "Unknown", refs |-> 0]

\* lines 71-124: no shard is registered, no file stored, no call is running
StoreNew ==
  /\ shards = [r \in Roots |-> NoShard]
  /\ carIdx = [r \in Roots |-> FALSE]
  /\ files = [r \in Roots |-> "none"]
  /\ cache = [r \in Roots |-> FALSE]
  /\ found = [p \in Procs |-> FALSE]
  /\ stored = [r \in Roots |-> FALSE]
  /\ locks = [s \in Stripes |-> 0]
  /\ pc = [p \in Procs |-> "idle"]
  /\ op = [p \in Procs |-> "none"]
  /\ root = [p \in Procs |-> 1]
  /\ res = [p \in Procs |-> NoResult]
  /\ req = [p \in Procs |-> NoReq]
  /\ late = NoLate
  /\ stale = [p \in Procs |-> FALSE]
  /\ rmLog = [p \in Procs |-> <<>>]

Stripe(k) == k % NumStripes

\* ------------------------------------------------- Lifecycle Manager (4.1)
\* Synchronous part of register/acquire/destroy and of the registry query.
GetShardInfo(k) ==
  IF shards[k].state = "Unknown"
    THEN [err |-> ErrShardUnknown, Error |-> Nil]
    ELSE [err |-> Nil,
          Error |-> IF shards[k].state = "Errored"
                      THEN <<"IndexingFailed">> ELSE Nil]

RegisterShard(k) == IF shards[k].state # "Unknown" THEN ErrShardExists ELSE Nil
AcquireShard(k) == IF shards[k].state = "Unknown" THEN ErrShardUnknown ELSE Nil
DestroyShard(k) == IF shards[k].state = "Unknown" THEN ErrShardUnknown ELSE Nil
AllShardsInfo == {k \in Roots : shards[k].state # "Unknown"}

\* ------------------------------------------------------------ Store.has
\* a Has that reported an Errored shard as absent
has_healthyOnly(k) ==
  <<shards[k].state \in {"Registering", "Available"}, Nil>>

\* a Has that took a shard with a stored error for an absent one
hasOf_errorMeansAbsent(info) ==
  IF info.err = Nil THEN <<info.Error = Nil, info.Error>>
  ELSE IF info.err = ErrShardUnknown THEN <<FALSE, info.Error>>
  ELSE <<FALSE, info.err>>

\* lines 514-521: switch err over what GetShardInfo returned (info, err)
hasOf(info) ==
  IF info.err = Nil THEN <<TRUE, info.Error>>
  ELSE IF info.err = ErrShardUnknown THEN <<FALSE, info.Error>>
  ELSE <<FALSE, info.err>>

\* lines 511-522
has(k) == hasOf(GetShardInfo(k))

\* a List that left out the shards that are not healthy
list_healthyOnly == {k \in Roots : shards[k].state = "Available"}

\* lines 534-545: one hash per key of AllShardsInfo
list == AllShardsInfo

\* ------------------------------------------------------------ call frame
Return(p, err) ==
  /\ pc' = [pc EXCEPT ![p] = "idle"]
  /\ res' = [res EXCEPT ![p] = err]

\* the caller's context is done while it waits: the channel goes to a
\* detached tracker (go trackLateResult) and the call returns ctx.Err()
\* a tracker that is given one minute whatever it tracks
maxWait_oneMinute(o) == 1

\* the ceiling, in minutes, handed to trackLateResult: time.Minute*5 by put
\* (line 237), time.Minute by getAccessor (395) and remove (452)
maxWait(o) == IF o = "register" THEN 5 ELSE 1

HandOver(p) ==
  /\ late = NoLate
  /\ late' = [op |-> req[p].op, key |-> req[p].key, st |-> req[p].st,
              tracker |-> "waiting", maxWait |-> maxWait(req[p].op)]
  /\ req' = [req EXCEPT ![p] = NoReq]

\* what the registry may answer to GetShardInfo(k): its record of k, or a
\* failure to read it (4.4: "genuine I/O errors on the registry")
RegistryIOError == <<"registry I/O">>
ShardInfos(k) ==
  {GetShardInfo(k), [err |-> RegistryIOError, Error |-> Nil]}

\* lines 502-522: a caller calls Has(root)
Has(p) ==
  /\ pc[p] = "idle"
  /\ op' = [op EXCEPT ![p] = "has"]
  /\ \E k \in Roots :
       /\ root' = [root EXCEPT ![p] = k]
       /\ \E info \in ShardInfos(k) :
            /\ found' = [found EXCEPT ![p] = hasOf(info)[1]]
            /\ res' = [res EXCEPT ![p] = hasOf(info)[2]]
  /\ rmLog' = [rmLog EXCEPT ![p] = <<>>]
  /\ UNCHANGED <<shards, carIdx, files, cache, locks, pc, req, late, stale,
                 stored>>
  /\ UNCHANGED <<orderVars, verVars, lifeVars, mountVars, carVars>>

\* ------------------------------------------------------------ Store.put
\* a Put that also looked at the error returned by Has
putShortCircuit_healthyOnly(k) == has(k)[1] /\ has(k)[2] = Nil

\* line 201: if has, _ := s.Has(ctx, root); has
putShortCircuit(k) == has(k)[1]

PutHas(p) ==
  /\ pc[p] = "idle"
  /\ op' = [op EXCEPT ![p] = "put"]
  /\ \E k \in Stored :
       /\ root' = [root EXCEPT ![p] = k]
       /\ IF putShortCircuit(k)
            THEN Return(p, ErrShardExists)
            ELSE /\ pc' = [pc EXCEPT ![p] = "put_open"]
                 /\ res' = [res EXCEPT ![p] = NoResult]
  /\ rmLog' = [rmLog EXCEPT ![p] = <<>>]
  /\ UNCHANGED <<shards, carIdx, files, cache, locks, req, late, stale>>
  /\ UNCHANGED stored
  /\ UNCHANGED aux

\* line 206: os.OpenFile(path, O_CREATE|O_WRONLY, 0600)
PutOpen(p) ==
  /\ pc[p] = "put_open"
  /\ \/ /\ Return(p, <<"open">>)
        /\ UNCHANGED <<files, stale>>
     \/ /\ files' = [files EXCEPT ![root[p]] =
                       IF @ = "none" THEN "empty" ELSE @]
        /\ stale' = [stale EXCEPT ![p] = FALSE]
        /\ pc' = [pc EXCEPT ![p] = "put_write"]
        /\ UNCHANGED res
  /\ UNCHANGED <<shards, carIdx, cache, locks, op, root, req, late, rmLog>>
  /\ UNCHANGED stored
  /\ UNCHANGED aux

\* lines 213-226: WriteEDS into the buffer, then mount.WriteTo(f)
PutWrite(p) ==
  /\ pc[p] = "put_write"
  /\ \/ /\ Return(p, Wrap("failed to write EDS to file", <<"encode">>))
        /\ UNCHANGED files
     \/ /\ Return(p, Wrap("failed to write EDS to file", <<"write">>))
        /\ UNCHANGED files
     \/ /\ files' = IF stale[p] THEN files
                    ELSE [files EXCEPT ![root[p]] = "data"]
        /\ pc' = [pc EXCEPT ![p] = "put_register"]
        /\ UNCHANGED res
  /\ stale' = [stale EXCEPT ![p] = FALSE]
  /\ UNCHANGED <<shards, carIdx, cache, locks, op, root, req, late, rmLog>>
  /\ UNCHANGED stored
  /\ UNCHANGED aux

\* an error formatted with %v: the cause is no longer in the chain
registerInitErr_unwrapped(err) == <<"failed to initiate shard registration">>

\* line 231: fmt.Errorf("failed to initiate shard registration: %w", err)
registerInitErr(err) == Wrap("failed to initiate shard registration", err)

\* lines 228-232: ch := make(chan, 1); s.dgstr.RegisterShard(...)
PutRegister(p) ==
  /\ pc[p] = "put_register"
  /\ LET err == RegisterShard(root[p]) IN
     IF err # Nil
       THEN /\ Return(p, registerInitErr(err))
            /\ UNCHANGED <<shards, req>>
       ELSE /\ shards' = [shards EXCEPT ![root[p]] =
                            [state |-> "Registering", refs |-> 0]]
            /\ req' = [req EXCEPT ![p] = NewChan("register", root[p])]
            /\ pc' = [pc EXCEPT ![p] = "put_wait"]
            /\ UNCHANGED res
  /\ UNCHANGED <<carIdx, files, cache, locks, op, root, late, stale, rmLog>>
  /\ UNCHANGED stored
  /\ UNCHANGED aux

\* lines 239-243: case result := <-ch
putResult(st) ==
  IF resultError(st) # Nil
    THEN Wrap("failed to register shard", resultError(st))
    ELSE Nil

PutWait(p) ==
  /\ pc[p] = "put_wait"
  /\ req[p].st # "pending"
  /\ Return(p, putResult(req[p].st))
  /\ req' = [req EXCEPT ![p] = NoReq]
  /\ UNCHANGED <<shards, carIdx, files, cache, locks, op, root, late, stale,
                 rmLog>>
  /\ stored' = [stored EXCEPT ![root[p]] = @ \/ (putResult(req[p].st) = Nil)]
  /\ UNCHANGED aux

\* lines 235-238: case <-ctx.Done()
PutCancel(p) ==
  /\ pc[p] = "put_wait"
  /\ HandOver(p)
  /\ Return(p, ctxErr)
  /\ UNCHANGED <<shards, carIdx, files, cache, locks, op, root, stale, rmLog>>
  /\ UNCHANGED stored
  /\ UNCHANGED aux

\* ------------------------------------------------------ accessor cache (4.2)
unsafeGet(k) == cache[k]

\* insert under the caller's stripe lock; at capacity another entry is
\* evicted and its accessor closed (its shard loses one reference)
Evicted(k) ==
  IF Cardinality({j \in Roots : cache[j]}) >= defaultCacheSize
    THEN {j \in Roots : cache[j] /\ j # k}
    ELSE {}

unsafeAdd(k) ==
  \E v \in SUBSET Evicted(k) :
    /\ Cardinality(v) = (IF Evicted(k) = {} THEN 0 ELSE 1)
    /\ cache' = [j \in Roots |-> IF j = k THEN TRUE
                                 ELSE IF j \in v THEN FALSE ELSE cache[j]]
    /\ shards' = [j \in Roots |->
                    IF j \in v /\ shards[j].refs > 0
                      THEN [shards[j] EXCEPT !.refs = @ - 1] ELSE shards[j]]

\* ---------------------------------------------- Store.getCachedAccessor
\* GetCAR, CARBlockstore, GetDAH and Get all enter through it.
GetStart(p) ==
  /\ pc[p] = "idle"
  /\ op' = [op EXCEPT ![p] = "get"]
  /\ \E k \in Roots : root' = [root EXCEPT ![p] = k]
  /\ pc' = [pc EXCEPT ![p] = "gca_lock"]
  /\ res' = [res EXCEPT ![p] = NoResult]
  /\ rmLog' = [rmLog EXCEPT ![p] = <<>>]
  /\ UNCHANGED <<shards, carIdx, files, cache, locks, req, late, stale>>
  /\ UNCHANGED stored
  /\ UNCHANGED aux

\* a getCachedAccessor that did not wait for the stripe lock
lockFree_always(p) == TRUE

\* lines 401-403: lk.Lock(); defer lk.Unlock()
lockFree(p) == locks[Stripe(root[p])] = 0

\* a getCachedAccessor that ignored what the lookup found
cacheHit_never(k) == FALSE

\* lines 406-413: accessor, err := s.cache.unsafeGet(key); accessor != nil
cacheHit(k) == unsafeGet(k)

\* lines 401-413: lock the stripe, look the key up, return on a hit
GetLock(p) ==
  /\ pc[p] = "gca_lock"
  /\ lockFree(p)
  /\ IF cacheHit(root[p])
       THEN /\ Return(p, Nil)
            /\ UNCHANGED locks
       ELSE /\ locks' = [locks EXCEPT ![Stripe(root[p])] = p]
            /\ pc' = [pc EXCEPT ![p] = "gca_acquire"]
            /\ UNCHANGED res
  /\ UNCHANGED <<shards, carIdx, files, cache, op, root, req, late, stale,
                 rmLog>>
  /\ UNCHANGED stored
  /\ UNCHANGED aux

\* a getCachedAccessor that returned with the stripe lock held
Unlock_never(p) == UNCHANGED locks

\* line 403: defer lk.Unlock()
Unlock(p) == locks' = [locks EXCEPT ![Stripe(root[p])] = 0]

\* a getAccessor that wrapped every error of AcquireShard alike
getAccessorInitErr_wrapAll(err) ==
  Wrap("failed to initialize shard acquisition", err)

\* lines 379-386: ch := make(chan, 1); s.dgstr.AcquireShard(...)
getAccessorInitErr(err) ==
  IF errorsIs(err, "ErrShardUnknown") THEN ErrNotFound
  ELSE Wrap("failed to initialize shard acquisition", err)

GetAcquire(p) ==
  /\ pc[p] = "gca_acquire"
  /\ LET err == AcquireShard(root[p]) IN
     IF err # Nil
       THEN /\ Return(p, Wrap("failed to get accessor", getAccessorInitErr(err)))
            /\ Unlock(p)
            /\ UNCHANGED req
       ELSE /\ req' = [req EXCEPT ![p] = NewChan("acquire", root[p])]
            /\ pc' = [pc EXCEPT ![p] = "gca_wait"]
            /\ UNCHANGED <<res, locks>>
  /\ UNCHANGED <<shards, carIdx, files, cache, op, root, late, stale, rmLog>>
  /\ UNCHANGED stored
  /\ UNCHANGED aux

\* lines 389-393 and 416-424: the result arrives; on success add to the cache
GetWait(p) ==
  /\ pc[p] = "gca_wait"
  /\ req[p].st # "pending"
  /\ IF resultError(req[p].st) # Nil
       THEN /\ Return(p, Wrap("failed to get accessor",
                   Wrap("failed to acquire shard", resultError(req[p].st))))
            /\ UNCHANGED <<cache, shards>>
       ELSE /\ unsafeAdd(root[p])
            /\ Return(p, Nil)
  /\ req' = [req EXCEPT ![p] = NoReq]
  /\ Unlock(p)
  /\ UNCHANGED <<carIdx, files, op, root, late, stale, rmLog>>
  /\ UNCHANGED stored
  /\ UNCHANGED aux

\* lines 394-396: case <-ctx.Done()
GetCancel(p) ==
  /\ pc[p] = "gca_wait"
  /\ HandOver(p)
  /\ Return(p, Wrap("failed to get accessor", ctxErr))
  /\ Unlock(p)
  /\ UNCHANGED <<shards, carIdx, files, cache, op, root, stale, rmLog>>
  /\ UNCHANGED stored
  /\ UNCHANGED aux

\* The read methods: getCAR (292-299), carBlockstore (324-334) and getDAH
\* (346-352) return the error of getCachedAccessor wrapped once ("failed to
\* get accessor: %w", as in GetWait, GetAcquire, GetCancel); get (490-493)
\* wraps the error of GetCAR once more.
Readers == {"Get", "GetCAR", "CARBlockstore", "GetDAH"}
readerErr(meth, err) ==
  IF meth = "Get" THEN Wrap("failed to get CAR file", err) ELSE err

\* ------------------------------------------------------------ Store.remove
\* lines 440-444: ch := make(chan, 1); s.dgstr.DestroyShard(...)
RemoveDestroy(p) ==
  /\ pc[p] = "idle"
  /\ op' = [op EXCEPT ![p] = "remove"]
  /\ \E k \in Stored :
       /\ root' = [root EXCEPT ![p] = k]
       /\ LET err == DestroyShard(k) IN
          IF err # Nil
            THEN /\ Return(p, Wrap("failed to initiate shard destruction", err))
                 /\ UNCHANGED req
            ELSE /\ req' = [req EXCEPT ![p] = NewChan("destroy", k)]
                 /\ pc' = [pc EXCEPT ![p] = "rm_wait"]
                 /\ res' = [res EXCEPT ![p] = NoResult]
  /\ rmLog' = [rmLog EXCEPT ![p] = <<>>]
  /\ UNCHANGED <<shards, carIdx, files, cache, locks, late, stale>>
  /\ UNCHANGED stored
  /\ UNCHANGED aux

\* a remove that went on whatever the destroy result was
destroyFailed_never(st) == FALSE

\* lines 447-450: the destroy result decides whether remove goes on
destroyFailed(st) == resultError(st) # Nil

RemoveWait(p) ==
  /\ pc[p] = "rm_wait"
  /\ req[p].st # "pending"
  /\ IF destroyFailed(req[p].st)
       THEN Return(p, Wrap("failed to destroy shard", resultError(req[p].st)))
       ELSE /\ pc' = [pc EXCEPT ![p] = "rm_drop"]
            /\ UNCHANGED res
  /\ rmLog' = [rmLog EXCEPT ![p] = Append(@,
       IF resultError(req[p].st) # Nil THEN "destroy:err" ELSE "destroy:ok")]
  /\ req' = [req EXCEPT ![p] = NoReq]
  /\ UNCHANGED <<shards, carIdx, files, cache, locks, op, root, late, stale>>
  /\ UNCHANGED stored
  /\ UNCHANGED aux

\* lines 451-453: case <-ctx.Done()
RemoveCancel(p) ==
  /\ pc[p] = "rm_wait"
  /\ HandOver(p)
  /\ Return(p, ctxErr)
  /\ UNCHANGED <<shards, carIdx, files, cache, locks, op, root, stale, rmLog>>
  /\ UNCHANGED stored
  /\ UNCHANGED aux

\* lines 456-462: dropped, err := s.carIdx.DropFullIndex(key)
\* outcome of the index repository (4.3): what was dropped, and the error
DropFullIndex(k) ==
  {[dropped |-> FALSE, err |-> <<"index I/O">>]}
    \cup (IF carIdx[k] THEN {[dropped |-> TRUE, err |-> Nil]}
                       ELSE {[dropped |-> FALSE, err |-> Nil]})

\* a remove that also stopped when nothing was dropped
dropAborts_notDropped(d) == d.err # Nil \/ ~d.dropped

\* line 460: only the error aborts; "not dropped" is logged (line 457)
dropAborts(d) == d.err # Nil

RemoveDrop(p) ==
  /\ pc[p] = "rm_drop"
  /\ \E d \in DropFullIndex(root[p]) :
       /\ carIdx' = [carIdx EXCEPT ![root[p]] = IF d.dropped THEN FALSE ELSE @]
       /\ IF dropAborts(d)
            THEN /\ Return(p, Wrap("failed to drop index", d.err))
            ELSE /\ pc' = [pc EXCEPT ![p] = "rm_delete"]
                 /\ UNCHANGED res
       /\ rmLog' = [rmLog EXCEPT ![p] = Append(@,
            IF d.err # Nil THEN "drop:err"
            ELSE IF d.dropped THEN "drop:ok" ELSE "drop:absent")]
  /\ UNCHANGED <<shards, files, cache, locks, op, root, req, late, stale>>
  /\ UNCHANGED stored
  /\ UNCHANGED aux

\* lines 464-468: os.Remove(path)
osRemove(k) ==
  {<<"remove I/O">>} \cup (IF files[k] = "none" THEN {} ELSE {Nil})

RemoveDelete(p) ==
  /\ pc[p] = "rm_delete"
  /\ \E err \in osRemove(root[p]) :
       IF err # Nil
         THEN /\ Return(p, Wrap("failed to remove CAR file", err))
              /\ rmLog' = [rmLog EXCEPT ![p] = Append(@, "delete:err")]
              /\ UNCHANGED <<files, stale>>
         ELSE /\ files' = [files EXCEPT ![root[p]] = "none"]
              /\ stale' = [q \in Procs |->
                   stale[q] \/ (pc[q] = "put_write" /\ root[q] = root[p])]
              /\ Return(p, Nil)
              /\ rmLog' = [rmLog EXCEPT ![p] = Append(@, "delete:ok")]
  /\ UNCHANGED <<shards, carIdx, cache, locks, op, root, req, late>>
  /\ stored' = [stored EXCEPT ![root[p]] = @ /\ (res'[p] # Nil)]
  /\ UNCHANGED aux

\* ------------------------------------- Lifecycle Manager worker (4.1, 5)
\* A request waits in the channel of its caller ("req") or, after the caller
\* was cancelled, in the channel its tracker holds ("late").
Tracker == 0
Waiters == Procs \cup {Tracker}
Slot(w) == IF w = Tracker
             THEN [op |-> late.op, key |-> late.key, st |-> late.st]
             ELSE req[w]

\* program constant: make(chan dagstore.ShardResult, 1) (store.go:228, 379,
\* 440)
chanCap == 1

\* results in the channel of w, and whether a receiver waits on it: the
\* caller in its select, or the tracker until it gives up
buffered(w) == IF Slot(w).st = "pending" THEN 0 ELSE 1
receiverWaiting(w) == IF w = Tracker THEN late.tracker = "waiting" ELSE TRUE

\* channels without a buffer: a send needs a receiver
sendReady_unbuffered(w) == receiverWaiting(w)

\* a send on the channel does not block: there is room in its buffer, or a
\* receiver waits
sendReady(w) == buffered(w) < chanCap \/ receiverWaiting(w)

\* the single result is sent into the channel (capacity one); a channel
\* whose tracker gave up is garbage once it holds the result
Deliver(w, st) ==
  /\ sendReady(w)
  /\ IF w = Tracker
       THEN /\ late' = IF late.tracker = "gaveup" THEN NoLate
                       ELSE [late EXCEPT !.st = st]
            /\ UNCHANGED req
       ELSE /\ req' = [req EXCEPT ![w].st = st]
            /\ UNCHANGED late

\* register: index the mount; the shard becomes Available, or Errored
RegisterDone(w) ==
  /\ Slot(w).op = "register"
  /\ Slot(w).st = "pending"
  /\ LET k == Slot(w).key IN
     \E ok \in BOOLEAN :
       /\ shards' = [shards EXCEPT ![k] =
            [state |-> IF ok THEN "Available" ELSE "Errored", refs |-> 0]]
       /\ carIdx' = [carIdx EXCEPT ![k] = @ \/ ok]
       /\ Deliver(w, IF ok THEN "ok" ELSE "IndexingFailed")
  /\ UNCHANGED <<files, cache, locks, pc, op, root, res, stale, rmLog>>
  /\ UNCHANGED stored
  /\ UNCHANGED aux

\* acquire: a reference is taken and an accessor handed out, or it fails
\* (shard unknown by now, shard errored, or the mount cannot be fetched);
\* it waits while the shard is still registering
AcquireDone(w) ==
  /\ Slot(w).op = "acquire"
  /\ Slot(w).st = "pending"
  /\ LET k == Slot(w).key IN
     /\ shards[k].state # "Registering"
     /\ \/ /\ shards[k].state = "Available"
           /\ files[k] = "data"
           /\ shards[k].refs < MaxRefs
           /\ shards' = [shards EXCEPT ![k].refs = @ + 1]
           /\ Deliver(w, "ok")
        \/ /\ UNCHANGED shards
           /\ Deliver(w, IF shards[k].state = "Unknown" THEN "ErrShardUnknown"
                         ELSE IF shards[k].state = "Errored" THEN "ShardErrored"
                         ELSE "ResourceError")
  /\ UNCHANGED <<carIdx, files, cache, locks, pc, op, root, res, stale, rmLog>>
  /\ UNCHANGED stored
  /\ UNCHANGED aux

\* destroy: fails while accessors are outstanding (or the shard is unknown
\* by now), else removes the shard from the registry; it waits while the
\* shard is still registering (per-key sequencing)
DestroyDone(w) ==
  /\ Slot(w).op = "destroy"
  /\ Slot(w).st = "pending"
  /\ LET k == Slot(w).key IN
     /\ shards[k].state # "Registering"
     /\ IF shards[k].state = "Unknown" \/ shards[k].refs > 0
          THEN /\ UNCHANGED shards
               /\ Deliver(w, IF shards[k].state = "Unknown"
                               THEN "ErrShardUnknown" ELSE "ActiveReferences")
          ELSE /\ shards' = [shards EXCEPT ![k] = NoShard]
               /\ Deliver(w, "ok")
  /\ UNCHANGED <<carIdx, files, cache, locks, pc, op, root, res, stale, rmLog>>
  /\ UNCHANGED stored
  /\ UNCHANGED aux

\* -------------------------------------------------------- trackLateResult
\* lines 258-272: case result := <-res  (the result is only logged)
TrackReceive ==
  /\ late.tracker = "waiting"
  /\ late.st # "pending"
  /\ late' = NoLate
  /\ UNCHANGED <<shards, carIdx, files, cache, locks, pc, op, root, res, req,
                 stale, rmLog>>
  /\ UNCHANGED stored
  /\ UNCHANGED aux

\* lines 254-257: case <-time.After(maxWait)
TrackTimeout ==
  /\ late.tracker = "waiting"
  /\ late' = IF late.st = "pending" THEN [late EXCEPT !.tracker = "gaveup"]
             ELSE NoLate
  /\ UNCHANGED <<shards, carIdx, files, cache, locks, pc, op, root, res, req,
                 stale, rmLog>>
  /\ UNCHANGED stored
  /\ UNCHANGED aux

\* ------------------------------------------------- Store.Start, Stop, gc
\* lines 71-124: the Store as NewStore returns it (gcInterval apart)
LifeNew ==
  /\ cancel = "nil"
  /\ lastGCResult = "nil"
  /\ gcLoop = "none"
  /\ dgstr = [started |-> FALSE, closed |-> FALSE, gcCalls |-> 0]
  /\ invertedIdx = "open"
  /\ stopRet = NoResult

\* lines 126-143: Start; the gc goroutine is spawned only for a non-zero
\* interval. An error of dgstr.Start is returned and nothing is set up.
Start ==
  /\ cancel = "nil"
  /\ \E err \in {Nil, <<"dagstore start">>} :
       IF err # Nil
         THEN UNCHANGED <<cancel, lastGCResult, gcLoop, dgstr>>
         ELSE /\ dgstr' = [dgstr EXCEPT !.started = TRUE]
              /\ cancel' = "set"
              /\ lastGCResult' = "empty"
              /\ gcLoop' = IF gcInterval # 0 THEN "select" ELSE "none"
  /\ UNCHANGED <<gcInterval, invertedIdx, stopRet>>
  /\ UNCHANGED <<storeVars, found, orderVars, verVars, mountVars, carVars>>

\* lines 147-149: an error of invertedIdx.close() ends Stop
stopAborts(err) == err # Nil

\* lines 145-152: Stop; s.cancel is called on every return (defer)
Stop ==
  /\ cancel = "set"
  /\ \E cerr \in {Nil, <<"index close">>} :
       IF stopAborts(cerr)
         THEN /\ invertedIdx' = "close failed"
              /\ stopRet' = cerr
              /\ UNCHANGED dgstr
         ELSE /\ invertedIdx' = "closed"
              /\ dgstr' = [dgstr EXCEPT !.closed = TRUE]
              /\ \E derr \in {Nil, <<"dagstore close">>} : stopRet' = derr
  /\ cancel' = "called"
  /\ UNCHANGED <<gcInterval, lastGCResult, gcLoop>>
  /\ UNCHANGED <<storeVars, found, orderVars, verVars, mountVars, carVars>>

\* what s.dgstr.GC(ctx) can return: (res, nil) or (nil, err)
GC ==
  {[res |-> r, err |-> Nil] : r \in GCResults}
    \cup {[res |-> "nil", err |-> <<"gc failed">>]}

\* a loop that went on after a failed GC run
gcFails_never(err) == FALSE

\* lines 165-168: if err != nil { log; return }
gcFails(err) == err # Nil

\* lines 161-169: case <-ticker.C
GCTick ==
  /\ gcLoop = "select"
  /\ dgstr.gcCalls < MaxGCCalls
  /\ dgstr' = [dgstr EXCEPT !.gcCalls = @ + 1]
  /\ \E out \in GC :
       IF gcFails(out.err)
         THEN gcLoop' = "returned" /\ UNCHANGED lastGCResult
         ELSE lastGCResult' = out.res /\ UNCHANGED gcLoop
  /\ UNCHANGED <<cancel, gcInterval, invertedIdx, stopRet>>
  /\ UNCHANGED <<storeVars, found, orderVars, verVars, mountVars, carVars>>

\* lines 159-160: case <-ctx.Done()
GCCtxDone ==
  /\ gcLoop = "select"
  /\ cancel = "called"
  /\ gcLoop' = "returned"
  /\ UNCHANGED <<cancel, gcInterval, lastGCResult, dgstr, invertedIdx,
                 stopRet>>
  /\ UNCHANGED <<storeVars, found, orderVars, verVars, mountVars, carVars>>

\* ------------------------------------------------ inMemoryOnceMount.Fetch
\* a mount on which no Fetch was called yet (its buf apart)
MountNew ==
  /\ readOnce = FALSE
  /\ fpc = [p \in Fetchers |-> "idle"]
  /\ fetched = [p \in Fetchers |-> "none"]
  /\ bufReads = 0

\* line 571, m.buf != nil: a read that is not ordered with the write of
\* line 574 by another Fetch; it sees the field as it is or, once the
\* buffer was handed out, still as it was before
bufSeen == {buf} \cup (IF readOnce THEN {"data"} ELSE {})

\* lines 570-571: the buffer is looked at; without one, FileMount.Fetch
FetchCheck(p) ==
  /\ fpc[p] = "idle"
  /\ \E seen \in bufSeen :
       IF seen = "nil"
         THEN /\ fetched' = [fetched EXCEPT ![p] = "file"]
              /\ UNCHANGED fpc
         ELSE /\ fpc' = [fpc EXCEPT ![p] = "swap"]
              /\ fetched' = [fetched EXCEPT ![p] = "none"]
  /\ UNCHANGED <<buf, readOnce, bufReads>>
  /\ UNCHANGED <<storeVars, found, orderVars, verVars, lifeVars, carVars>>

\* a Fetch that took every swap for the first
swapWins_always(old) == TRUE

\* line 571: !m.readOnce.Swap(true)
swapWins(old) == ~old

\* line 571: the atomic swap; who finds it set already goes to the file
FetchSwap(p) ==
  /\ fpc[p] = "swap"
  /\ readOnce' = TRUE
  /\ IF swapWins(readOnce)
       THEN /\ fpc' = [fpc EXCEPT ![p] = "reader"]
            /\ UNCHANGED fetched
       ELSE /\ fpc' = [fpc EXCEPT ![p] = "idle"]
            /\ fetched' = [fetched EXCEPT ![p] = "file"]
  /\ UNCHANGED <<buf, bufReads>>
  /\ UNCHANGED <<storeVars, found, orderVars, verVars, lifeVars, carVars>>

\* lines 572-575: a reader over m.buf.Bytes(), then m.buf = nil
\* (m.buf.Bytes() on a nil buffer panics: "panic")
FetchReader(p) ==
  /\ fpc[p] = "reader"
  /\ fetched' = [fetched EXCEPT ![p] = IF buf = "nil" THEN "panic" ELSE "buffer"]
  /\ bufReads' = IF buf = "nil" THEN bufReads ELSE bufReads + 1
  /\ buf' = "nil"
  /\ fpc' = [fpc EXCEPT ![p] = "idle"]
  /\ UNCHANGED readOnce
  /\ UNCHANGED <<storeVars, found, orderVars, verVars, lifeVars, carVars>>

\* ------------------------------------------------------- one stored square
\* A square of width 2 is the sequence of its four shares, row by row; its
\* first quadrant is its first share. The erasure code, the axis roots, the
\* hash of a header and the codec are modelled from the specification (2,
\* 4.4, 6); digests are collision-free, a digest stands for what it digests.
Extend(o) == <<o, (o + 1) % NumShareValues, (o + 2) % NumShareValues,
               (2 * o + 1) % NumShareValues>>
Squares == {Extend(o) : o \in Shares}
Flattened(S) == S

RowRoots(S) == << <<S[1], S[2]>>, <<S[3], S[4]>> >>
ColumnRoots(S) == << <<S[1], S[3]>>, <<S[2], S[4]>> >>
NoDAH == [RowRoots |-> <<>>, ColumnRoots |-> <<>>]
DAH(S) == [RowRoots |-> RowRoots(S), ColumnRoots |-> ColumnRoots(S)]
\* DataAvailabilityHeader.Hash: the Merkle root over row roots, then column
\* roots
Hash(dah) == dah.RowRoots \o dah.ColumnRoots
rootOf(S) == Hash(DAH(S))

\* codec: the header lists the 2 x W roots, then the first quadrant follows
WriteEDS(S) == [roots |-> RowRoots(S) \o ColumnRoots(S), shares |-> <<S[1]>>]
IntegrityMismatch == <<"IntegrityMismatch">>
NoSquare == <<>>
ReadEDS(car, r) ==
  IF Len(car.shares) # 1 THEN [eds |-> NoSquare, err |-> <<"unexpected EOF">>]
  ELSE LET e == Extend(car.shares[1]) IN
       IF rootOf(e) = r THEN [eds |-> e, err |-> Nil]
       ELSE [eds |-> NoSquare, err |-> IntegrityMismatch]

\* "touched": the file was changed after put wrote it
NoFile == [exists |-> FALSE, roots |-> <<>>, shares |-> <<>>,
           touched |-> FALSE]
NoEDS == [done |-> FALSE, eds |-> NoSquare, err |-> Nil]
NoHeader == [done |-> FALSE, dah |-> NoDAH, err |-> Nil]

CarNew ==
  /\ carFile = NoFile
  /\ edsRet = NoEDS
  /\ dahRet = NoHeader

\* a put that wrote the header but not the buffered quadrant
putFile_headerOnly(S) == [WriteEDS(S) EXCEPT !.shares = <<>>]

\* lines 212-226: WriteEDS(ctx, square, mount), then mount.WriteTo(f)
putFile(S) == WriteEDS(S)

PutSquare ==
  /\ ~carFile.exists
  /\ carFile' = [exists |-> TRUE, roots |-> putFile(square).roots,
                 shares |-> putFile(square).shares, touched |-> FALSE]
  /\ UNCHANGED <<square, edsRet, dahRet>>
  /\ UNCHANGED <<storeVars, found, orderVars, verVars, lifeVars, mountVars>>

\* the stored file is corrupted (6: "tampering with the stored file"): its
\* header is replaced by that of another square, loses its last root or has
\* its halves exchanged; or its quadrant is replaced
Headers(h) ==
  {WriteEDS(T).roots : T \in Squares}
    \cup {SubSeq(h, 1, Len(h) - 1),
          SubSeq(h, (Len(h) \div 2) + 1, Len(h)) \o SubSeq(h, 1, Len(h) \div 2)}

TamperHeader ==
  /\ carFile.exists
  /\ \E h \in Headers(carFile.roots) : carFile' = [carFile EXCEPT !.roots = h, !.touched = TRUE]
  /\ UNCHANGED <<square, edsRet, dahRet>>
  /\ UNCHANGED <<storeVars, found, orderVars, verVars, lifeVars, mountVars>>

TamperShares ==
  /\ carFile.exists
  /\ \E o \in Shares : carFile' = [carFile EXCEPT !.shares = <<o>>, !.touched = TRUE]
  /\ UNCHANGED <<square, edsRet, dahRet>>
  /\ UNCHANGED <<storeVars, found, orderVars, verVars, lifeVars, mountVars>>

\* lines 484-499: get; f is the reader of GetCAR (header and first quadrant)
get(car, r) ==
  LET out == ReadEDS(car, r) IN
  IF out.err # Nil
    THEN [eds |-> NoSquare,
          err |-> Wrap("failed to read EDS from CAR file", out.err)]
    ELSE [eds |-> out.eds, err |-> Nil]

GetSquare ==
  /\ carFile.exists
  /\ LET out == get(carFile, rootOf(square)) IN
     edsRet' = [done |-> TRUE, eds |-> out.eds, err |-> out.err]
  /\ UNCHANGED <<square, carFile, dahRet>>
  /\ UNCHANGED <<storeVars, found, orderVars, verVars, lifeVars, mountVars>>

\* a header split after its first root
dahFromCARHeader_splitAtOne(roots) ==
  [RowRoots |-> SubSeq(roots, 1, 1),
   ColumnRoots |-> SubSeq(roots, 2, Len(roots))]

\* lines 365-376: the first half of the roots are the row roots
dahFromCARHeader(roots) ==
  LET rootCount == Len(roots) IN
  [RowRoots |-> SubSeq(roots, 1, rootCount \div 2),
   ColumnRoots |-> SubSeq(roots, (rootCount \div 2) + 1, rootCount)]

\* lines 353-362: the header is read and its hash compared with the root
getDAH(car, r) ==
  LET dah == dahFromCARHeader(car.roots) IN
  IF Hash(dah) # r
    THEN [dah |-> NoDAH, err |-> <<"content integrity mismatch">>]
    ELSE [dah |-> dah, err |-> Nil]

GetHeader ==
  /\ carFile.exists
  /\ LET out == getDAH(carFile, rootOf(square)) IN
     dahRet' = [done |-> TRUE, dah |-> out.dah, err |-> out.err]
  /\ UNCHANGED <<square, carFile, edsRet>>
  /\ UNCHANGED <<storeVars, found, orderVars, verVars, lifeVars, mountVars>>

\* --------------------------------------- header verification (TestVerify)
\* Digests are collision-free sequences of numbers; a digest of a header
\* starts with its height (1 or more), random bytes start with 0, so
\* random bytes differ from every digest.
\* program constants: NewTestSuite(t, 2).GenExtendedHeaders(3)
\* (verify_test.go:15)
NumValidators == 2
NumHeaders == 3

Suites == 1..NumSuites
RandBytes == {<<0, n>> : n \in 1..NumRandom}
ValidatorSet(s) == {NumValidators * (s - 1) + i : i \in 1..NumValidators}
ValidatorsHashOf(s) == <<s, NumValidators>>

HeaderHash(raw) ==
  <<raw.Height, raw.DataHash>> \o raw.ValidatorsHash
    \o raw.NextValidatorsHash \o raw.LastBlockID

\* a commit for raw signed by all validators of suite s
Commit(s, raw) ==
  [Height |-> raw.Height, BlockID |-> HeaderHash(raw),
   Signers |-> ValidatorSet(s)]

ExtendedHeader(s, raw) ==
  [RawHeader |-> raw, Commit |-> Commit(s, raw),
   ValidatorSet |-> ValidatorSet(s)]

\* the chain of the test suite: one validator set, each header links to
\* the hash of the one before it
RECURSIVE GenRawHeader(_)
GenRawHeader(h) ==
  [Height |-> h, DataHash |-> h,
   ValidatorsHash |-> ValidatorsHashOf(1),
   NextValidatorsHash |-> ValidatorsHashOf(1),
   LastBlockID |-> IF h = 1 THEN <<>> ELSE HeaderHash(GenRawHeader(h - 1))]

GenExtendedHeaders(n) == [h \in 1..n |-> ExtendedHeader(1, GenRawHeader(h))]

RandRawHeader ==
  {[Height |-> h, DataHash |-> 0, ValidatorsHash |-> r,
    NextValidatorsHash |-> r, LastBlockID |-> r] :
     h \in 1..NumHeaders, r \in RandBytes}

\* line 16: trusted, untrustedAdj, untrustedNonAdj := h[0], h[1], h[2]
trusted == GenExtendedHeaders(NumHeaders)[1]

\* a test that took the third header for the adjacent one
untrustedAdj_third == GenExtendedHeaders(NumHeaders)[3]

untrustedAdj == GenExtendedHeaders(NumHeaders)[2]
untrustedNonAdj == GenExtendedHeaders(NumHeaders)[3]

\* lines 18-62: what prepare() of test case i may return
prepare(i) ==
  IF i = 1 THEN {untrustedAdj}
  ELSE IF i = 2 THEN {untrustedNonAdj}
  ELSE IF i = 3
    THEN {[untrustedAdj EXCEPT !.RawHeader.ValidatorsHash = r] :
            r \in RandBytes}
  ELSE IF i = 4
    THEN {[untrustedAdj EXCEPT !.RawHeader.LastBlockID = r] : r \in RandBytes}
  ELSE {[untrustedNonAdj EXCEPT !.Commit = Commit(2, raw)] :
          raw \in RandRawHeader}

NumTests == 5
Tests == 1..NumTests

\* the error of Verify: nil, or a VerifyError with its Reason
NoError == [verifyError |-> FALSE, Reason |-> Nil]
NotRun == [verifyError |-> FALSE, Reason |-> NoResult]
VerifyError(reason) == [verifyError |-> TRUE, Reason |-> reason]

isAdjacent(t, u) == t.RawHeader.Height + 1 = u.RawHeader.Height

\* the commit carries signatures of more than a third (the default trust
\* level) of the trusted validators' voting power, all of equal power
VerifyCommitLightTrusting(vals, commit) ==
  IF 3 * Cardinality(commit.Signers \cap vals) > Cardinality(vals)
    THEN Nil ELSE <<"ErrNotEnoughVotingPowerSigned">>

\* ExtendedHeader.Verify: adjacent headers are checked by their hashes,
\* the others by the signatures of their commit
Verify(t, u) ==
  IF isAdjacent(t, u)
    THEN IF u.RawHeader.ValidatorsHash # t.RawHeader.NextValidatorsHash
           THEN VerifyError(<<"ErrValidatorHashMismatch">>)
         ELSE IF u.RawHeader.LastBlockID # HeaderHash(t.RawHeader)
           THEN VerifyError(<<"ErrLastHeaderHashMismatch">>)
         ELSE NoError
    ELSE LET err == VerifyCommitLightTrusting(t.ValidatorSet, u.Commit) IN
         IF err # Nil
           THEN VerifyError(Wrap("ErrVerifyCommitLightTrustingFailed", err))
           ELSE NoError

VerifyNew ==
  /\ tcase = 0
  /\ untrusted = trusted
  /\ verifyErr = NotRun

\* lines 64-66: a test case starts, its header is prepared
TestPrepare ==
  /\ tcase = 0 \/ verifyErr # NotRun
  /\ \E i \in Tests :
       /\ tcase' = i
       /\ untrusted' \in prepare(i)
  /\ verifyErr' = NotRun
  /\ UNCHANGED <<storeVars, found, orderVars, lifeVars, mountVars, carVars>>

\* line 66: err := trusted.Verify(test.prepare())
TestVerify ==
  /\ tcase # 0 /\ verifyErr = NotRun
  /\ verifyErr' = Verify(trusted, untrusted)
  /\ UNCHANGED <<tcase, untrusted>>
  /\ UNCHANGED <<storeVars, found, orderVars, lifeVars, mountVars, carVars>>

\* ------------------------------------------------ Store.put, step by step
\* One put call with its file and its mount, down to the single writes.
\* the encoded square as the chunks the codec writes: the roots of the
\* header, then the shares of the first quadrant
CARChunks(S) == WriteEDS(S).roots \o <<WriteEDS(S).shares>>

NoBuf == [isNil |-> TRUE, bytes |-> <<>>]
NoFetch == [n |-> 0, bytes |-> <<>>]

PutNew ==
  /\ putPos = "open"
  /\ mountBuf = NoBuf
  /\ mountReadOnce = FALSE
  /\ fileBytes = <<>>
  /\ registered = FALSE
  /\ putErr = NoResult
  /\ lmFetched = NoFetch

PutReturn(err) ==
  /\ putPos' = "returned"
  /\ putErr' = err

\* lines 206-216: the file is opened, then the mount is made with an empty
\* buffer; an error of OpenFile is returned
PutOpenFile ==
  /\ putPos = "open"
  /\ \/ /\ PutReturn(<<"open">>)
        /\ UNCHANGED mountBuf
     \/ /\ putPos' = "encode"
        /\ mountBuf' = [isNil |-> FALSE, bytes |-> <<>>]
        /\ UNCHANGED putErr
  /\ UNCHANGED <<mountReadOnce, fileBytes, registered, lmFetched>>
  /\ UNCHANGED <<storeVars, found, verVars, lifeVars, mountVars, carVars>>

\* lines 581-583: Write appends to the buffer
Write(b, chunk) == [b EXCEPT !.bytes = Append(@, chunk)]

\* lines 217-220: WriteEDS writes the next chunk into the mount, or fails
PutEncode ==
  /\ putPos = "encode"
  /\ Len(mountBuf.bytes) < Len(CARChunks(square))
  /\ \/ /\ PutReturn(Wrap("failed to write EDS to file", <<"encode">>))
        /\ UNCHANGED mountBuf
     \/ /\ mountBuf' =
             Write(mountBuf, CARChunks(square)[Len(mountBuf.bytes) + 1])
        /\ UNCHANGED <<putPos, putErr>>
  /\ UNCHANGED <<mountReadOnce, fileBytes, registered, lmFetched>>
  /\ UNCHANGED <<storeVars, found, verVars, lifeVars, mountVars, carVars>>

\* a WriteTo that copied the first chunk only and reported no error
WriteTo_firstChunk(b) == {[written |-> SubSeq(b.bytes, 1, 1), err |-> Nil]}

\* lines 585-587: io.Copy(w, bytes.NewReader(m.buf.Bytes())): all of the
\* buffer is written, or the copy stops with an error at some chunk
WriteTo(b) ==
  {[written |-> b.bytes, err |-> Nil]}
    \cup {[written |-> SubSeq(b.bytes, 1, n), err |-> <<"write">>] :
            n \in 0..(Len(b.bytes) - 1)}

\* lines 223-226: WriteEDS has returned; the buffer is written to the file
PutWriteTo ==
  /\ putPos = "encode"
  /\ Len(mountBuf.bytes) = Len(CARChunks(square))
  /\ \E w \in WriteTo(mountBuf) :
       /\ fileBytes' = w.written
       /\ IF w.err # Nil
            THEN PutReturn(Wrap("failed to write EDS to file", w.err))
            ELSE /\ putPos' = "register"
                 /\ UNCHANGED putErr
  /\ UNCHANGED <<mountBuf, mountReadOnce, registered, lmFetched>>
  /\ UNCHANGED <<storeVars, found, verVars, lifeVars, mountVars, carVars>>

\* lines 228-232: RegisterShard is called with the mount
PutRegisterShard ==
  /\ putPos = "register"
  /\ registered' = TRUE
  /\ \/ PutReturn(registerInitErr(<<"dagstore closed">>))
     \/ /\ putPos' = "wait"
        /\ UNCHANGED putErr
  /\ UNCHANGED <<mountBuf, mountReadOnce, fileBytes, lmFetched>>
  /\ UNCHANGED <<storeVars, found, verVars, lifeVars, mountVars, carVars>>

\* lines 570-578: the Lifecycle Manager fetches the registered mount, one
\* fetch after the other: the buffer once, the file from then on
Fetch ==
  /\ registered
  /\ lmFetched.n < MaxFetches
  /\ mountReadOnce' = TRUE
  /\ IF ~mountBuf.isNil /\ swapWins(mountReadOnce)
       THEN /\ lmFetched' = [n |-> lmFetched.n + 1, bytes |-> mountBuf.bytes]
            /\ mountBuf' = NoBuf
       ELSE /\ lmFetched' = [n |-> lmFetched.n + 1, bytes |-> fileBytes]
            /\ UNCHANGED mountBuf
  /\ UNCHANGED <<putPos, fileBytes, registered, putErr>>
  /\ UNCHANGED <<storeVars, found, verVars, lifeVars, mountVars, carVars>>

\* all but the calls on stored squares is as NewStore left it
Rest ==
  /\ LifeNew /\ gcInterval = defaultGCInterval
  /\ MountNew /\ buf = "nil"
  /\ CarNew /\ square = NoSquare
  /\ VerifyNew
  /\ PutNew

Init == StoreNew /\ Rest

\* the Store as NewStore returns it, with GC off or on
InitGC ==
  /\ StoreNew
  /\ LifeNew /\ gcInterval \in GCIntervals
  /\ MountNew /\ buf = "nil"
  /\ CarNew /\ square = NoSquare
  /\ VerifyNew
  /\ PutNew

\* a mount created with a buffer (put, lines 212-216) or without one
InitMount ==
  /\ StoreNew
  /\ LifeNew /\ gcInterval = defaultGCInterval
  /\ MountNew /\ buf \in {"nil", "data"}
  /\ CarNew /\ square = NoSquare
  /\ VerifyNew
  /\ PutNew

\* a square is put, its file may be corrupted, and it is read back
InitCAR ==
  /\ StoreNew
  /\ LifeNew /\ gcInterval = defaultGCInterval
  /\ MountNew /\ buf = "nil"
  /\ CarNew /\ square \in Squares
  /\ VerifyNew
  /\ PutNew

InitVerify == StoreNew /\ Rest

NextVerify == TestPrepare \/ TestVerify

SpecVerify == InitVerify /\ [][NextVerify]_vars

\* one square is put, and the Lifecycle Manager fetches its mount
InitOrder ==
  /\ StoreNew
  /\ LifeNew /\ gcInterval = defaultGCInterval
  /\ MountNew /\ buf = "nil"
  /\ CarNew /\ square \in Squares
  /\ VerifyNew
  /\ PutNew

NextOrder ==
  PutOpenFile \/ PutEncode \/ PutWriteTo \/ PutRegisterShard \/ Fetch

SpecOrder == InitOrder /\ [][NextOrder]_vars

NextCAR == PutSquare \/ TamperHeader \/ TamperShares \/ GetSquare \/ GetHeader

SpecCAR == InitCAR /\ [][NextCAR]_vars

NextMount == \E p \in Fetchers : FetchCheck(p) \/ FetchSwap(p) \/ FetchReader(p)

SpecMount == InitMount /\ [][NextMount]_vars

NextGC == Start \/ Stop \/ GCTick \/ GCCtxDone

SpecGC == InitGC /\ [][NextGC]_vars

\* ------------------------------------------------------------------ system
Next ==
  \/ \E p \in Procs :
       \/ PutHas(p) \/ PutOpen(p) \/ PutWrite(p) \/ PutRegister(p)
       \/ PutWait(p) \/ PutCancel(p)
       \/ GetStart(p) \/ GetLock(p) \/ GetAcquire(p) \/ GetWait(p)
       \/ GetCancel(p)
       \/ RemoveDestroy(p) \/ RemoveWait(p) \/ RemoveCancel(p)
       \/ RemoveDrop(p) \/ RemoveDelete(p)
  \/ \E w \in Waiters : RegisterDone(w) \/ AcquireDone(w) \/ DestroyDone(w)
  \/ TrackReceive \/ TrackTimeout

Spec == Init /\ [][Next]_vars

FairSpec == Spec /\ WF_vars(TrackTimeout) /\ WF_vars(TrackReceive)

\* only Put is called (concurrently, any number of times)
NextPut ==
  \/ \E p \in Procs :
       \/ PutHas(p) \/ PutOpen(p) \/ PutWrite(p) \/ PutRegister(p)
       \/ PutWait(p) \/ PutCancel(p)
  \/ \E w \in Waiters : RegisterDone(w)
  \/ TrackReceive \/ TrackTimeout

SpecPut == Init /\ [][NextPut]_vars

\* the select of trackLateResult takes a branch that is ready: the timer of
\* time.After fires, a result in the channel is received
FairSpecPut ==
  SpecPut /\ WF_vars(TrackTimeout) /\ WF_vars(TrackReceive)

\* Put, Remove and Has are called (no reads through the cache)
NextHas ==
  \/ \E p \in Procs :
       \/ PutHas(p) \/ PutOpen(p) \/ PutWrite(p) \/ PutRegister(p)
       \/ PutWait(p) \/ PutCancel(p)
       \/ RemoveDestroy(p) \/ RemoveWait(p) \/ RemoveCancel(p)
       \/ RemoveDrop(p) \/ RemoveDelete(p)
       \/ Has(p)
  \/ \E w \in Waiters : RegisterDone(w) \/ DestroyDone(w)
  \/ TrackReceive \/ TrackTimeout

SpecHas == Init /\ [][NextHas]_vars

TypeOK ==
  /\ \A k \in Roots :
       /\ shards[k].state \in {"Unknown", "Registering", "Available", "Errored"}
       /\ shards[k].refs \in 0..MaxRefs
       /\ files[k] \in {"none", "empty", "data"}
       /\ cache[k] => shards[k].refs > 0
  /\ \A s \in Stripes : locks[s] \in Procs \cup {0}

\* ------------------------------------------------------------------ claims
Registered(k) == shards[k].state # "Unknown"

PutCalls(k) == {p \in Procs : op[p] = "put" /\ root[p] = k}
PutDone(k) == {p \in PutCalls(k) : pc[p] = "idle"}
RegisterFailed == Wrap("failed to register shard", <<"IndexingFailed">>)
FileFailures == {<<"open">>,
                 Wrap("failed to write EDS to file", <<"encode">>),
                 Wrap("failed to write EDS to file", <<"write">>)}

Registrants(k) ==
  {p \in PutCalls(k) :
     \/ pc[p] = "put_wait"
     \/ pc[p] = "idle" /\ res[p] \in {Nil, ctxErr, RegisterFailed}}

RemoveReturns(p) ==
  /\ pc[p] \in {"rm_wait", "rm_drop", "rm_delete"}
  /\ pc'[p] = "idle"

\* no other call is in progress and no tracker is left over
Quiet(p) == late = NoLate /\ \A q \in Procs \ {p} : pc[q] = "idle"

\* the call was cut short by its context or by an I/O fault, or found that
\* the root is not (or no longer) stored
Faulted(e) ==
  \/ e = ctxErr \/ errorsIs(e, "index I/O") \/ errorsIs(e, "remove I/O")
  \/ errorsIs(e, "ErrShardUnknown")

\* what a Get of k returns from this state: a cache hit, or the outcome of
\* AcquireShard (getAccessor turns ErrShardUnknown into ErrNotFound)
GetIsNotFound(k) ==
  ~unsafeGet(k) /\ errorsIs(getAccessorInitErr(AcquireShard(k)), "ErrNotFound")

Removed(k) ==
  /\ ~has(k)[1]
  /\ k \notin list
  /\ files[k] = "none"
  /\ GetIsNotFound(k)

\* C3 -- Removal completeness: when a Remove(R) of a registered root returns
\* (no other call in progress, its context not cancelled, no I/O fault),
\* Has(R) is false, List() does not contain R, the backing file is absent
\* and Get(R) returns NotFound; also when an accessor for R is cached.
C3_RemovalCompleteness ==
  [][\A p \in Procs :
       (RemoveReturns(p) /\ Quiet(p) /\ ~Faulted(res'[p]))
         => Removed(root[p])']_vars

\* the steps a remove call has completed, with their outcomes
DropDone == {"drop:ok", "drop:absent"}
AfterDestroy == {<<"destroy:ok">>}
AfterDrop == {<<"destroy:ok", d>> : d \in DropDone}

\* C4 -- Remove ordering: a remove call starts the index drop only after it
\* received the destroy result without error, and starts the file delete
\* only after the index drop returned without error; whatever it has done
\* so far is a prefix of destroy, drop, delete.
C4_RemoveOrdering ==
  \A p \in Procs :
    /\ pc[p] = "rm_wait" => rmLog[p] = <<>>
    /\ pc[p] = "rm_drop" => rmLog[p] \in AfterDestroy
    /\ pc[p] = "rm_delete" => rmLog[p] \in AfterDrop
    /\ op[p] = "remove" =>
         /\ Len(rmLog[p]) <= 3
         /\ Len(rmLog[p]) >= 1 => rmLog[p][1] \in {"destroy:ok", "destroy:err"}
         /\ Len(rmLog[p]) >= 2 =>
              /\ rmLog[p][1] = "destroy:ok"
              /\ rmLog[p][2] \in DropDone \cup {"drop:err"}
         /\ Len(rmLog[p]) = 3 =>
              /\ rmLog[p][2] \in DropDone
              /\ rmLog[p][3] \in {"delete:ok", "delete:err"}

\* a remove call went through destroy, index drop and file delete
C4_Witness ==
  \E p \in Procs :
    /\ pc[p] = "idle" /\ op[p] = "remove" /\ res[p] = Nil
    /\ rmLog[p] = <<"destroy:ok", "drop:ok", "delete:ok">>
    /\ files[root[p]] = "none" /\ ~carIdx[root[p]]

\* a remove call has returned
RemoveDone(p) == pc[p] = "idle" /\ op[p] = "remove"

\* C5 -- Remove error handling: a failed initiation or a failed destroy is
\* returned and neither index drop nor file delete was attempted; an index
\* drop error is returned and the file delete was not attempted; an index
\* drop that dropped nothing without error is followed by the file delete;
\* a file delete error is returned; only a call whose three steps all went
\* through returns nil.
C5_RemoveErrors ==
  \A p \in Procs : RemoveDone(p) =>
    \/ /\ rmLog[p] = <<>>
       /\ \/ res[p] = Wrap("failed to initiate shard destruction",
                            ErrShardUnknown)
          \/ res[p] = ctxErr
    \/ /\ rmLog[p] = <<"destroy:err">>
       /\ Len(res[p]) = 2 /\ res[p][1] = "failed to destroy shard"
    \/ /\ rmLog[p] = <<"destroy:ok", "drop:err">>
       /\ res[p] = Wrap("failed to drop index", <<"index I/O">>)
    \/ /\ \E d \in DropDone : rmLog[p] = <<"destroy:ok", d, "delete:err">>
       /\ res[p] = Wrap("failed to remove CAR file", <<"remove I/O">>)
    \/ /\ \E d \in DropDone : rmLog[p] = <<"destroy:ok", d, "delete:ok">>
       /\ res[p] = Nil

\* the index had nothing to drop for the shard (its registration had
\* failed), no error, and the remove call still deleted the file
C5_Witness ==
  \E p \in Procs :
    /\ RemoveDone(p) /\ res[p] = Nil
    /\ rmLog[p] = <<"destroy:ok", "drop:absent", "delete:ok">>
    /\ files[root[p]] = "none"

\* C6 -- No reachable state has a live accessor (acquired and not closed,
\* cached or handed out) whose shard has been destroyed or whose backing
\* file has been deleted.
C6_NoAccessorOnRemoved ==
  \A k \in Roots :
    shards[k].refs > 0 => (shards[k].state # "Unknown" /\ files[k] # "none")

\* C7 -- Remove evicts the cached accessor: when Remove(R) returns nil the
\* accessor cache holds no entry for R, so the next Get of R is a miss.
C7_RemoveEvicts ==
  [][\A p \in Procs :
       (RemoveReturns(p) /\ res'[p] = Nil) => ~cacheHit(root[p])']_vars

\* p is inside the lookup-acquire-insert section of getCachedAccessor
InSection(p) == pc[p] \in {"gca_acquire", "gca_wait"}

C9_StripeLock ==
  /\ \A p \in Procs : InSection(p) =>
        /\ locks[Stripe(root[p])] = p
        /\ ~cache[root[p]]
  /\ \A p, q \in Procs :
        (p # q /\ InSection(p) /\ InSection(q))
          => Stripe(root[p]) # Stripe(root[q])

\* two calls for keys of different stripes are inside the section together
C9_Witness ==
  \E p, q \in Procs :
    /\ p # q /\ Stripe(root[p]) # Stripe(root[q])
    /\ pc[p] = "gca_wait" /\ pc[q] = "gca_acquire"
    /\ locks[Stripe(root[p])] = p /\ locks[Stripe(root[q])] = q

\* what Has may say of a shard whose registration has finished
TerminalHas(k) ==
  IF shards[k].state = "Available" THEN <<TRUE, Nil>>
  ELSE <<TRUE, <<"IndexingFailed">>>>

\* C10 -- Cancellation safety of Put: a Put cancelled while it waits
\* returns the context's error in that step, its channel goes unchanged to
\* a tracker and the registration is left as it was; the registration stays
\* in flight until it finishes, and when it does Has(root) is true with no
\* error on success and true with the stored error on indexing failure.
C10_PutCancelSafe ==
  [][/\ \A p \in Procs : PutCancel(p) =>
          /\ pc'[p] = "idle" /\ res'[p] = ctxErr
          /\ late' = [op |-> "register", key |-> root[p], st |-> req[p].st,
                      tracker |-> "waiting", maxWait |-> 5]
          /\ UNCHANGED <<shards, carIdx, files>>
     /\ \A k \in Roots :
          (late.op = "register" /\ late.st = "pending" /\ late.key = k)
            => /\ shards[k].state = "Registering"
               /\ ~RegisterDone(Tracker) => shards'[k] = shards[k]
               /\ RegisterDone(Tracker) =>
                    /\ shards'[k].state \in {"Available", "Errored"}
                    /\ has(k)' = TerminalHas(k)']_vars

\* a Put was cancelled while waiting, its registration then succeeded and
\* the tracker received the result: Has is true with no error
C10_Witness ==
  \E p \in Procs :
    /\ pc[p] = "idle" /\ op[p] = "put" /\ res[p] = ctxErr
    /\ late = NoLate
    /\ has(root[p]) = <<TRUE, Nil>>

\* the steps of a getCachedAccessor call of p
GetStep(p) == GetLock(p) \/ GetAcquire(p) \/ GetWait(p) \/ GetCancel(p)

\* p waits for a stripe lock that another call holds while that call waits
\* for its acquisition result
LockWait(p) ==
  /\ pc[p] = "gca_lock"
  /\ \E q \in Procs \ {p} :
       locks[Stripe(root[p])] = q /\ pc[q] = "gca_wait"

\* C11 -- Every wait is cancellable: a Get that waits for the cache stripe
\* lock, held by a call that itself waits for an acquisition result, can
\* return (on its context's cancellation) without the holder finishing:
\* in that state the waiting call has a step of its own.
C11_LockWaitCancellable ==
  \A p \in Procs : LockWait(p) => ENABLED GetStep(p)

\* the error state the registry has stored for a registered shard
StoredError(k) ==
  IF shards[k].state = "Errored" THEN <<"IndexingFailed">> ELSE Nil

\* C12 -- Has(root) returns (false, nil) for a key the registry reports as
\* Unknown, (true, e) for a registered shard with e its stored error (nil
\* when healthy), and (false, err) when the registry fails otherwise; the
\* call changes neither the registry, the cache, the index nor the files.
C12_Has ==
  [][\A p \in Procs : Has(p) =>
       /\ UNCHANGED <<shards, cache, carIdx, files, locks, req, late>>
       /\ \/ ~found'[p] /\ res'[p] = RegistryIOError
          \/ /\ shards[root'[p]].state = "Unknown"
             /\ ~found'[p] /\ res'[p] = Nil
          \/ /\ shards[root'[p]].state # "Unknown"
             /\ found'[p] /\ res'[p] = StoredError(root'[p])]_vars

\* Has of a shard whose registration failed returned (true, stored error)
C12_Witness ==
  \E p \in Procs :
    /\ pc[p] = "idle" /\ op[p] = "has"
    /\ found[p] /\ res[p] = <<"IndexingFailed">>
    /\ shards[root[p]].state = "Errored"

\* C13 -- NotFound: a read of a root that is not registered (never was, or
\* was destroyed) misses the cache, and when its AcquireShard reports the
\* key as unknown the call returns at once, asking nothing more of the
\* Lifecycle Manager, with an error that is ErrNotFound in each of Get,
\* GetCAR, CARBlockstore and GetDAH.
C13_NotFound ==
  [][\A p \in Procs :
       /\ (GetLock(p) /\ ~Registered(root[p])) => pc'[p] = "gca_acquire"
       /\ (GetAcquire(p) /\ ~Registered(root[p]))
            => /\ pc'[p] = "idle"
               /\ \A meth \in Readers :
                    errorsIs(readerErr(meth, res'[p]), "ErrNotFound")
               /\ UNCHANGED <<shards, req, cache, late>>]_vars

\* a read of a root that a Remove has destroyed returned NotFound
C13_Witness ==
  \E p, q \in Procs :
    /\ p # q /\ root[p] = root[q]
    /\ pc[q] = "idle" /\ op[q] = "remove" /\ res[q] = Nil
    /\ pc[p] = "idle" /\ op[p] = "get"
    /\ res[p] = Wrap("failed to get accessor", ErrNotFound)
    /\ ~Registered(root[p])

\* every call has completed and no tracker is left over
AllDone == late = NoLate /\ \A p \in Procs : pc[p] = "idle"

\* C14 (as stated) -- after any sequence of Put and Remove calls that
\* completed, a root is in List() iff a Put of it succeeded and no later
\* Remove of it succeeded.
C14_Original ==
  AllDone => \A k \in Roots : (k \in list <=> stored[k])

\* C14 -- List() is the set of keys registered with the Lifecycle Manager:
\* a root enters it in the step in which a Put's RegisterShard is accepted
\* (whether or not that Put later returns nil) and leaves it in the step in
\* which a destroy requested by a Remove completes (whether or not that
\* Remove later returns nil), and in no other step.
C14_List ==
  [][\A k \in Roots :
       /\ (k \notin list /\ k \in list')
            => \E p \in Procs :
                 PutRegister(p) /\ root[p] = k /\ pc'[p] = "put_wait"
       /\ (k \in list /\ k \notin list')
            => \E w \in Waiters :
                 DestroyDone(w) /\ Slot(w).key = k /\ Slot(w).op = "destroy"]_vars

\* all calls have completed, the only Put of R failed on indexing, and R is
\* in List()
C14_Witness ==
  /\ AllDone
  /\ \E p \in Procs :
       /\ op[p] = "put" /\ errorsIs(res[p], "IndexingFailed")
       /\ root[p] \in list /\ ~stored[root[p]]

\* C15 -- The gc loop is fail-stop: a tick calls the Lifecycle Manager's gc
\* once; the loop then either stores the result as the last GC result and
\* goes on, or (gc failed) returns and leaves the last GC result as it was;
\* a loop that is not running calls gc no more and does not run again; the
\* last GC result is not nil once Start has succeeded.
C15_GCFailStop ==
  [][/\ GCTick =>
          /\ dgstr'.gcCalls = dgstr.gcCalls + 1
          /\ \/ gcLoop' = "select" /\ lastGCResult' \in GCResults
             \/ gcLoop' = "returned" /\ lastGCResult' = lastGCResult
     /\ gcLoop # "select" => dgstr'.gcCalls = dgstr.gcCalls
     /\ gcLoop = "returned" => gcLoop' = "returned"
     /\ cancel' # "nil" => lastGCResult' # "nil"]_vars

\* a running loop stored a result, then a GC run failed and the loop
\* returned with the Store not stopped; the stored result is still there
C15_Witness ==
  /\ gcLoop = "returned" /\ cancel = "set"
  /\ dgstr.gcCalls >= 2
  /\ lastGCResult \in GCResults

\* C16 -- Stop releases all held resources: once Stop has returned, with or
\* without an error from closing the index, the gc loop's context is
\* cancelled, the index has been closed and the Lifecycle Manager has been
\* closed.
C16_StopReleases ==
  stopRet # NoResult =>
    /\ cancel = "called"
    /\ invertedIdx = "closed"
    /\ dgstr.closed

\* C17 -- A buffer-backed mount is single-read: over all Fetch calls on the
\* mount at most one returned a reader over the buffer, the buffer is
\* released (nil) once that Fetch has returned, no Fetch reads a released
\* buffer, and every other Fetch returned a reader over the file path; on a
\* mount created without a buffer every Fetch goes to the file path.
C17_SingleRead ==
  /\ bufReads <= 1
  /\ bufReads = 1 => buf = "nil"
  /\ Cardinality({p \in Fetchers : fpc[p] = "reader"}) + bufReads <= 1
  /\ \A p \in Fetchers :
       /\ fetched[p] \in {"none", "buffer", "file"}
       /\ fpc[p] = "reader" => buf = "data"
       /\ (buf = "nil" /\ ~readOnce)
            => (fpc[p] = "idle" /\ fetched[p] \in {"none", "file"})

\* one Fetch got the buffer, two others passed the nil check before it was
\* released and were sent to the file by the swap
C17_Witness ==
  \E p, q, r \in Fetchers :
    /\ p # q /\ q # r /\ p # r
    /\ fetched[p] = "buffer" /\ fetched[q] = "file" /\ fpc[r] = "swap"
    /\ buf = "nil" /\ readOnce /\ bufReads = 1

\* the file as put wrote it for the square
AsWritten == carFile.exists /\ ~carFile.touched

FirstHalf == SubSeq(carFile.roots, 1, Len(carFile.roots) \div 2)
SecondHalf ==
  SubSeq(carFile.roots, (Len(carFile.roots) \div 2) + 1, Len(carFile.roots))

\* C19 -- GetDAH of root R takes the first half of the header's roots as
\* row roots and the second half as column roots; it returns that header
\* iff the hash recomputed from them equals R, and else an integrity
\* mismatch error and no header; the quadrant in the file plays no part.
C19_GetDAH ==
  [][GetHeader =>
       LET dah == [RowRoots |-> FirstHalf, ColumnRoots |-> SecondHalf] IN
       IF Hash(dah) = rootOf(square)
         THEN dahRet'.err = Nil /\ dahRet'.dah = dah
         ELSE /\ errorsIs(dahRet'.err, "content integrity mismatch")
              /\ dahRet'.dah = NoDAH]_vars

\* the header of the file was tampered with (the quadrant is intact) and
\* GetDAH returned the integrity mismatch
C19_Witness ==
  /\ carFile.exists
  /\ carFile.roots # WriteEDS(square).roots
  /\ carFile.shares = WriteEDS(square).shares
  /\ dahRet.done /\ dahRet.dah = NoDAH
  /\ errorsIs(dahRet.err, "content integrity mismatch")

\* the steps in which a caller gives up waiting, and those in which it
\* receives its result
Cancels(p) == PutCancel(p) \/ GetCancel(p) \/ RemoveCancel(p)
Receives(p) == PutWait(p) \/ GetWait(p) \/ RemoveWait(p)

\* C20 -- The result of a register, acquire or destroy request is sent once
\* and consumed at most once, by the caller or, after the caller's context
\* was cancelled, by the tracker the channel was handed to: the caller that
\* receives it is the one that still holds the channel, the caller that
\* gives up no longer holds it and returns in that step. The tracker has a
\* ceiling of 5 minutes for register and 1 minute for acquire and destroy,
\* its steps change nothing but its own channel, and it always terminates.
C20_SingleConsumer ==
  /\ [][/\ \A p \in Procs :
            /\ Cancels(p) =>
                 /\ pc'[p] = "idle" /\ req'[p] = NoReq
                 /\ late'.tracker = "waiting"
                 /\ <<late'.op, late'.key, late'.st>>
                      = <<req[p].op, req[p].key, req[p].st>>
                 /\ late'.maxWait = (IF req[p].op = "register" THEN 5 ELSE 1)
            /\ Receives(p) =>
                 /\ req[p].st # "pending" /\ req'[p] = NoReq
                 /\ late' = late
        /\ \A w \in Waiters :
             (RegisterDone(w) \/ AcquireDone(w) \/ DestroyDone(w))
               => Slot(w).st = "pending"
        /\ (TrackReceive \/ TrackTimeout) =>
             /\ late'.tracker # "waiting"
             /\ UNCHANGED <<shards, carIdx, files, cache, locks, pc, res, req>>
        /\ TrackReceive => (late.st # "pending" /\ late' = NoLate)]_vars
  /\ (late.tracker = "waiting") ~> (late.tracker # "waiting")

\* a tracker gave up on a registration that was still in flight
C20_Witness ==
  /\ late.tracker = "gaveup" /\ late.op = "register" /\ late.st = "pending"
  /\ late.maxWait = 5
  /\ \E p \in Procs : pc[p] = "idle" /\ op[p] = "put" /\ res[p] = ctxErr

\* a Put writes its buffer to the file that is linked at the shard's path
WritesFile(p) ==
  PutWrite(p) /\ pc'[p] = "put_register" /\ ~stale[p]

\* C21 -- A shard file is never written after its shard has been registered:
\* whenever a Put writes to the backing file of root R, no shard for R is
\* registered with the Lifecycle Manager.
C21_NoWriteAfterRegister ==
  [][\A p \in Procs :
       WritesFile(p) => shards[root[p]].state = "Unknown"]_vars

\* C22 -- Registration and removal of the same shard key never interleave:
\* no reachable state has a shard that is registered and healthy while its
\* index entries or its backing file have been removed.
C22_NoInterleave ==
  \A k \in Roots :
    shards[k].state = "Available" => (carIdx[k] /\ files[k] = "data")

\* the running test case has called Verify
Verified(i) == tcase = i /\ verifyErr # NotRun
ReasonIs(target) == verifyErr.verifyError /\ errorsIs(verifyErr.Reason, target)

WriteFailures == {Wrap("failed to write EDS to file", <<"encode">>),
                  Wrap("failed to write EDS to file", <<"write">>)}

\* C24 -- Put ordering: when put calls RegisterShard, the square has been
\* encoded completely into the mount's buffer and the whole buffer has been
\* written to the file; every fetch of the mount by the Lifecycle Manager,
\* from the buffer or from the file, yields the complete encoded square;
\* and a put that failed on encoding or on the file write never called
\* RegisterShard.
C24_PutOrdering ==
  /\ [][/\ PutRegisterShard =>
             /\ mountBuf.bytes = CARChunks(square)
             /\ fileBytes = CARChunks(square)
        /\ Fetch => lmFetched'.bytes = CARChunks(square)]_vars
  /\ [](putErr \in WriteFailures => ~registered)

\* the mount was fetched from its buffer and then from the file
C24_Witness ==
  /\ registered /\ putPos = "wait"
  /\ lmFetched.n >= 2 /\ mountBuf.isNil
  /\ lmFetched.bytes = fileBytes
  /\ fileBytes = CARChunks(square)

\* the accessors of shard k that are accounted for: the cached one, and the
\* ones in a result that is still in its channel
InChannel(k) ==
  {w \in Waiters : Slot(w) = [op |-> "acquire", key |-> k, st |-> "ok"]}
Accounted(k) == (IF cache[k] THEN 1 ELSE 0) + Cardinality(InChannel(k))

\* C25 -- No accessor leak: every accessor the Lifecycle Manager handed out
\* for an acquire request is in the accessor cache or closed, so a shard has
\* no more references than its cached accessor and the accessors that still
\* wait in a result channel; also after a caller was cancelled while it
\* waited and the acquisition succeeded later.
C25_NoAccessorLeak ==
  \A k \in Roots : shards[k].refs <= Accounted(k)

\* p is inside getCachedAccessor, and the steps in which it returns
InGet(p) == pc[p] \in {"gca_lock", "gca_acquire", "gca_wait"}
GetReturns(p) == InGet(p) /\ pc'[p] = "idle"

\* C26 -- A getCachedAccessor call that fails (key unknown, acquisition
\* error or context cancelled) leaves the accessor cache unchanged with no
\* entry for its key, and every return of getCachedAccessor, failed or not,
\* leaves the caller without a stripe lock.
C26_FailedGetFrame ==
  [][\A p \in Procs :
       GetReturns(p) =>
         /\ \A s \in Stripes : locks'[s] # p
         /\ res'[p] # Nil =>
              /\ cache' = cache
              /\ ~cache'[root[p]]
              /\ \/ errorsIs(res'[p], "ErrNotFound")
                 \/ errorsIs(res'[p], "failed to acquire shard")
                 \/ errorsIs(res'[p], "context.Canceled")]_vars

\* after a cancelled call for a key, a later call for the same key looked
\* the key up again and waits for its own acquisition
C26_Witness ==
  \E p, q \in Procs :
    /\ p # q /\ root[p] = root[q]
    /\ pc[p] = "idle" /\ op[p] = "get"
    /\ res[p] = Wrap("failed to get accessor", ctxErr)
    /\ pc[q] = "gca_wait" /\ locks[Stripe(root[q])] = q
    /\ ~cache[root[q]]

InPut(p) == pc[p] \in {"put_open", "put_write", "put_register", "put_wait"}

\* C27 -- No orphan shard files: whenever no Put is in progress, every file
\* in the blocks directory belongs to a registered shard, so a Put that
\* returned an error has left no file for a root without a registered shard.
C27_NoOrphanFiles ==
  (\A p \in Procs : ~InPut(p))
    => \A k \in Roots : files[k] # "none" => Registered(k)

\* the worker's steps that send the result of the request of w
Delivers(w) == RegisterDone(w) \/ AcquireDone(w) \/ DestroyDone(w)
InFlight(w) == Slot(w).op # "none" /\ Slot(w).st = "pending"

\* C28 -- The worker never blocks when it delivers a result of a Store
\* request: a result channel gets at most one result, and a send of the
\* result of a request in flight is never blocked, also when the caller has
\* returned on cancellation and the tracker has given up at its ceiling.
C28_DeliveryNeverBlocks ==
  /\ [](\A w \in Waiters : InFlight(w) => sendReady(w))
  /\ [][\A w \in Waiters :
          Delivers(w) => (buffered(w) = 0 /\ buffered(w)' <= chanCap)]_vars
  /\ [](\A w \in Waiters :
          InFlight(w) =>
            /\ Slot(w).op = "register" => ENABLED RegisterDone(w)
            /\ shards[Slot(w).key].state # "Registering" =>
                 /\ Slot(w).op = "acquire" => ENABLED AcquireDone(w)
                 /\ Slot(w).op = "destroy" => ENABLED DestroyDone(w))

\* the caller of Remove returned on cancellation, the tracker gave up, and
\* the worker can still deliver the result of the destroy request
C28_Witness ==
  /\ late.tracker = "gaveup" /\ late.op = "destroy" /\ InFlight(Tracker)
  /\ \E p \in Procs : pc[p] = "idle" /\ op[p] = "remove" /\ res[p] = ctxErr
  /\ shards[late.key].state = "Available"
  /\ ENABLED DestroyDone(Tracker)
====
